---- MODULE Spec2Model ----
(***************************************************************************)
(* Model of setup_map_client_from_provenance.py: one provisioning pass of  *)
(* main(), from argument parsing to the process exit status.               *)
(*                                                                         *)
(* Text is modelled as a sequence of fragments (Seq(STRING)); string       *)
(* concatenation is \o and string equality is equality of the fragment     *)
(* sequences.  Version texts are written one character per fragment so     *)
(* that packaging's Version() can be computed from the text.               *)
(* JSON objects are functions from key to value; an absent key is a key    *)
(* outside the DOMAIN.  JSON objects that the program iterates             *)
(* (packages, plugins) are sequences of [name, data] in mapping order.     *)
(***************************************************************************)
EXTENDS Integers, Sequences, FiniteSets, TLC

VARIABLES
    pc,                   \* position of main()
    exitCode,             \* process exit status, NoExit while running
    raised,               \* name of the uncaught exception, "none" otherwise
    host,                 \* sys.platform and platform.python_version()
    provenance,           \* the provenance file: its kind and its JSON content
    fs,                   \* what exists under (and including) the setup directory
    fs0,                  \* fs as it was when the run started
    software_info,        \* local of main()
    python_info,          \* local of main()
    git_exe,              \* local of main(), None when not found
    requirements,         \* local of main()
    plugin_requirements,  \* local of main()
    idx,                  \* position of the plugin loop (1-based)
    log,                  \* the subprocess.run calls made so far, in order
    which_call            \* one call of _which, followed through its statements

vars == <<pc, exitCode, raised, host, provenance, fs, fs0, software_info, python_info,
          git_exe, requirements, plugin_requirements, idx, log, which_call>>

-----------------------------------------------------------------------------
(* Bounds of the model *)

MaxPlugins == 2
MaxPackages == 1

-----------------------------------------------------------------------------
(* RETURN_CODES and the interpreter's exit status *)

SETUP_DIR_INVALID == 1
PROVENANCE_FILE_INVALID == 2
DEFAULT_PYTHON_NOT_SET == 3
PLATFORM_MISMATCH == 4
GIT_EXECUTABLE_NOT_FOUND == 5
VIRTUALENV_SETUP_FAILED == 6
REQUIREMENTS_INSTALL_FAILED == 7
PLUGIN_CLONE_FAILED == 8
GIT_SWITCH_FAILED == 9
MAPCLIENT_USE_FAILED == 10
SUCCESS == 0

\* sys.exit(main()) with an exception escaping main(): the interpreter prints
\* the traceback and exits with status 1.
UncaughtExitCode == 1

NoExit == -1

-----------------------------------------------------------------------------
(* Text *)

None == <<>>

Sentinel == <<"map-client-provenance-record-report">>
OtherId == <<"some-other-report">>

Darwin == <<"darwin">>
Linux == <<"linux">>

PyPI == <<"PyPI">>

V_0_1_0 == <<"0", ".", "1", ".", "0">>
V_0_1 == <<"0", ".", "1">>
V_0_2_0 == <<"0", ".", "2", ".", "0">>
V_bad == <<"n", "/", "a">>
V_3_11_10 == <<"3", ".", "1", "1", ".", "1", "0">>
V_3_11_11 == <<"3", ".", "1", "1", ".", "1", "1">>
V_3_11_10_0 == <<"3", ".", "1", "1", ".", "1", "0", ".", "0">>
V_2_0_0 == <<"2", ".", "0", ".", "0">>
V_1_5 == <<"1", ".", "5">>
V_1_2_3 == <<"1", ".", "2", ".", "3">>
V_0_9 == <<"0", ".", "9">>

Has(obj, key) == key \in DOMAIN obj

-----------------------------------------------------------------------------
(* packaging.version.Version, restricted to release-only version texts      *)
(* (an optional leading v, then dot-separated decimal numbers).             *)

DigitValue ==
    ("0" :> 0) @@ ("1" :> 1) @@ ("2" :> 2) @@ ("3" :> 3) @@ ("4" :> 4) @@
    ("5" :> 5) @@ ("6" :> 6) @@ ("7" :> 7) @@ ("8" :> 8) @@ ("9" :> 9)

IsDigit(c) == c \in DOMAIN DigitValue

RECURSIVE SplitDots(_, _, _)
\* text.split("."): the components of `text`, `cur` being the one under way
SplitDots(text, cur, done) ==
    IF text = <<>> THEN Append(done, cur)
    ELSE IF Head(text) = "." THEN SplitDots(Tail(text), <<>>, Append(done, cur))
    ELSE SplitDots(Tail(text), Append(cur, Head(text)), done)

RECURSIVE DecimalValue(_, _)
\* int(component)
DecimalValue(digits, acc) ==
    IF digits = <<>> THEN acc
    ELSE DecimalValue(Tail(digits), 10 * acc + DigitValue[Head(digits)])

RECURSIVE DropTrailingZeros(_)
\* the release of Version._key: trailing zero components do not count
DropTrailingZeros(release) ==
    IF release # <<>> /\ release[Len(release)] = 0
    THEN DropTrailingZeros(SubSeq(release, 1, Len(release) - 1))
    ELSE release

StripV(text) ==
    IF text # <<>> /\ Head(text) \in {"v", "V"} THEN Tail(text) ELSE text

VersionValid(text) ==
    LET parts == SplitDots(StripV(text), <<>>, <<>>) IN
    \A i \in 1..Len(parts) :
        /\ parts[i] # <<>>
        /\ \A j \in 1..Len(parts[i]) : IsDigit(parts[i][j])

\* Version(text)._key for a valid text
VersionKey(text) ==
    LET parts == SplitDots(StripV(text), <<>>, <<>>) IN
    DropTrailingZeros([i \in 1..Len(parts) |-> DecimalValue(parts[i], 0)])

\* Version(a) == Version(b), both valid
VersionEq(a, b) == VersionKey(a) = VersionKey(b)

-----------------------------------------------------------------------------
(* The inputs of a run: the provenance file, the host, the setup directory  *)

Obj(key, value) == key :> value

\* software_info["python"]: the recorded interpreter, with both fields, with
\* one of them, with none, or with a version text Version() rejects
PythonInfos ==
    { Obj("version", v) @@ Obj("platform", p) :
        v \in {V_3_11_10, V_3_11_11, V_3_11_10_0}, p \in {Linux, Darwin} }
    \cup { Obj("version", V_bad) @@ Obj("platform", Linux),
           Obj("version", V_3_11_10), Obj("version", V_3_11_11),
           Obj("platform", Linux) }

StdPython == Obj("version", V_3_11_10) @@ Obj("platform", Linux)

\* software_info["mapclient"]
MapClientInfos == { Obj("version", V_0_9), Obj("location", PyPI) }

StdMapClient == Obj("version", V_0_9)

\* one entry of software_info["packages"]
PackageData ==
    { Obj("version", V_1_2_3) @@ Obj("location", PyPI),
      Obj("version", V_1_2_3) @@ Obj("location", <<"https://example.org/wheels">>),
      Obj("version", V_1_5) @@ Obj("location", <<"https://example.org/wheels">>),
      Obj("location", PyPI) }

PackageName(i) == <<"package", ToString(i)>>

\* one entry of software_info["plugins"]
PluginData ==
    { Obj("version", V_2_0_0) @@ Obj("location", <<"https://example.org/a.git">>),
      Obj("version", V_1_5) @@ Obj("location", <<"https://example.org/b.git">>),
      Obj("location", <<"https://example.org/c.git">>),
      Obj("version", V_2_0_0) }

PluginName(i) == <<"plugin", ToString(i)>>

\* a JSON object the program iterates: its items in mapping order, keys unique
ItemsOf(names, d) == [i \in DOMAIN d |-> [name |-> names[i], data |-> d[i]]]

PackageMaps ==
    UNION { { ItemsOf([i \in 1..n |-> PackageName(i)], d) : d \in [1..n -> PackageData] } :
            n \in 0..MaxPackages }

PluginMaps ==
    UNION { { ItemsOf([i \in 1..n |-> PluginName(i)], d) : d \in [1..n -> PluginData] } :
            n \in 0..MaxPlugins }

StdPackages ==
    << [name |-> PackageName(1), data |-> Obj("version", V_1_2_3) @@ Obj("location", PyPI)] >>
StdPlugins ==
    << [name |-> PluginName(1),
        data |-> Obj("version", V_2_0_0) @@ Obj("location", <<"https://example.org/a.git">>)] >>

SoftwareInfo(python, mapclient, packages, plugins) ==
    python @@ mapclient @@ packages @@ plugins

\* a complete software_info, and the same with one sub-section left out
CoreSoftwareInfos ==
    LET py == Obj("python", StdPython)
        mc == Obj("mapclient", StdMapClient)
        pk == Obj("packages", StdPackages)
        pl == Obj("plugins", StdPlugins)
    IN  { py @@ mc @@ pk @@ pl, mc @@ pk @@ pl, py @@ pk @@ pl, py @@ mc @@ pl, py @@ mc @@ pk }

\* the complete software_info with one sub-section varied at a time
VariedSoftwareInfos ==
    LET py == Obj("python", StdPython)
        mc == Obj("mapclient", StdMapClient)
        pk == Obj("packages", StdPackages)
        pl == Obj("plugins", StdPlugins)
    IN    { SoftwareInfo(Obj("python", p), mc, pk, pl) : p \in PythonInfos }
     \cup { SoftwareInfo(py, Obj("mapclient", m), pk, pl) : m \in MapClientInfos }
     \cup { SoftwareInfo(py, mc, Obj("packages", k), pl) : k \in PackageMaps }
     \cup { SoftwareInfo(py, mc, pk, Obj("plugins", g)) : g \in PluginMaps }

SchemaVersions == {V_0_1_0, V_0_1, V_0_2_0, V_bad}

\* the JSON objects a provenance file may hold: every combination of id,
\* version and software_info (each possibly absent) around the complete
\* software_info, and the varied software_infos under the current schema
Contents ==
    LET ids == { Obj("id", Sentinel), Obj("id", OtherId), Obj("kind", <<"report">>) }
        versions == { Obj("version", v) : v \in SchemaVersions } \cup { Obj("kind", <<"report">>) }
        infos == { Obj("software_info", s) : s \in CoreSoftwareInfos } \cup { Obj("kind", <<"report">>) }
    IN    { i @@ v @@ s : i \in ids, v \in versions, s \in infos }
     \cup { Obj("id", Sentinel) @@ Obj("version", V_0_2_0) @@ Obj("software_info", s) :
             s \in VariedSoftwareInfos }

NoContent == Obj("kind", <<"report">>)

\* args.provenance_file: no regular file at the path, a file that is not JSON,
\* a JSON array, a JSON number, or a JSON object
ProvenanceFiles ==
    { [kind |-> k, content |-> NoContent] : k \in {"missing", "not_json", "array", "number"} }
    \cup { [kind |-> "object", content |-> c] : c \in Contents }

Hosts == [platform : {Darwin, Linux}, python_version : {V_3_11_10, V_3_11_11}]

\* the plugin names a provenance file records, when it records any
RecordedPluginNames(file) ==
    IF /\ file.kind = "object"
       /\ Has(file.content, "software_info")
       /\ Has(file.content["software_info"], "plugins")
    THEN LET g == file.content["software_info"]["plugins"] IN { g[i].name : i \in 1..Len(g) }
    ELSE {}

NoFile == [exists |-> FALSE, text |-> <<>>]
StaleFile == [exists |-> TRUE, text |-> <<"stale == 0.0">>]

\* args.setup_dir before the run: not a directory; an empty directory; one that
\* holds an old requirements.txt; one left by an earlier run, with the
\* environment, the plugins directory and some of the recorded checkouts
SetupDirectories(file) ==
    { [isdir |-> FALSE, requirements |-> NoFile, venv |-> FALSE, plugins_dir |-> FALSE,
       checkouts |-> {}] }
    \cup { [isdir |-> TRUE, requirements |-> r, venv |-> FALSE, plugins_dir |-> FALSE,
            checkouts |-> {}] : r \in {NoFile, StaleFile} }
    \cup { [isdir |-> TRUE, requirements |-> StaleFile, venv |-> TRUE, plugins_dir |-> TRUE,
            checkouts |-> c] : c \in SUBSET RecordedPluginNames(file) }

-----------------------------------------------------------------------------
(* Paths and the executables of the environment *)

SetupDir == <<"setup_dir">>
VenvDirectoryName == <<"venv_map_client">>

\* os.path.join
Join(a, b) == a \o <<"/">> \o b

\* sys.prefix and sys.executable of the running interpreter
SysPrefix == <<"/usr">>
SysExecutable == <<"/usr", "/", "bin", "/", "python", "3.11">>

RECURSIVE ReplaceFirst(_, _, _)
\* str.replace(old, new, 1), old being one fragment
ReplaceFirst(text, old, new) ==
    IF text = <<>> THEN <<>>
    ELSE IF Head(text) = old THEN <<new>> \o Tail(text)
    ELSE <<Head(text)>> \o ReplaceFirst(Tail(text), old, new)

\* os.path.commonpath([sys.executable, sys.prefix]): the interpreter lives
\* under its prefix
CommonPart == SysPrefix

GetExePart(base_dir, name, app_name) ==
    LET end_part == SubSeq(SysExecutable, Len(CommonPart) + 2, Len(SysExecutable))
        exe_part == ReplaceFirst(end_part, "python", app_name)
    IN  Join(Join(base_dir, name), exe_part)

GetVirtualEnvironmentPip(base_dir, name) == GetExePart(base_dir, name, "pip")

GetVirtualEnvironmentMapClientUse(base_dir, name) == GetExePart(base_dir, name, "mapclient_use")

PluginDir == Join(SetupDir, <<"plugins">>)

-----------------------------------------------------------------------------
(* _which, on a host without executable suffixes (sys.platform # "win32")   *)

SearchDirs == { <<"/bin">>, <<"/usr/bin">>, <<"/opt/bin">> }

\* os.defpath
DefPath == << <<"/bin">>, <<"/usr/bin">> >>

\* what a candidate path is: nothing, an executable file, a file without the
\* execute permission, a directory
EntryKinds == {"absent", "file_x", "file", "dir"}

\* the process environment _which reads: PATH (unset, or its directories in
\* order; the empty sequence is PATH="") and what <dir>/<cmd> is in each
SearchEnvs ==
    [ path_set : BOOLEAN,
      path : { <<>>, << <<"/usr/bin">> >>, << <<"/opt/bin">>, <<"/usr/bin">> >>,
               << <<"/usr/bin">>, <<"/usr/bin">>, <<"/opt/bin">> >> },
      entry : [SearchDirs -> EntryKinds] ]

\* a wrong reading of lines 57-58: a directory passes the check
AccessCheck_DirectoriesPass(kind) == kind \notin {"absent", "file"}

\* _access_check(fn, os.F_OK | os.X_OK)
AccessCheck(kind) == kind \notin {"absent", "file", "dir"}

RECURSIVE SearchPath(_, _, _, _)
\* the loop over the PATH directories, `seen` being the normalized ones tried
SearchPath(cmd, path, seen, entry) ==
    IF path = <<>> THEN None
    ELSE LET directory == Head(path) IN
         IF directory \in seen THEN SearchPath(cmd, Tail(path), seen, entry)
         ELSE IF AccessCheck(entry[directory]) THEN Join(directory, cmd)
         ELSE SearchPath(cmd, Tail(path), seen \cup {directory}, entry)

\* _which(cmd) for a bare command name
Which(cmd, env) ==
    LET path == IF env.path_set THEN env.path ELSE DefPath IN
    IF path = <<>> THEN None ELSE SearchPath(cmd, path, {}, env.entry)

\* os.path.dirname of a command: empty for a bare name
Dirname(cmd) == IF Len(cmd) >= 3 THEN SubSeq(cmd, 1, Len(cmd) - 2) ELSE <<>>

\* the commands _which is asked for: a bare name, and directory-qualified ones
WhichCommands == { <<"git">>, <<"/opt/bin", "/", "git">>, <<"/usr/bin", "/", "git">> }

\* no call of _which under way
NoWhichCall ==
    [at |-> "idle", cmd |-> <<>>,
     env |-> [path_set |-> FALSE, path |-> <<>>, entry |-> [d \in SearchDirs |-> "absent"]],
     path |-> <<>>, seen |-> {}, tried |-> <<>>, result |-> None]

\* _which entered with a command, in a process environment
WhichCalls ==
    { [at |-> "enter", cmd |-> c, env |-> e, path |-> <<>>, seen |-> {}, tried |-> <<>>,
       result |-> None] : c \in WhichCommands, e \in SearchEnvs }

-----------------------------------------------------------------------------
(* The pure helpers of main() *)

\* a wrong reading of line 125: the id only has to be there
IsMapClientProvenanceFile_AnyId(file) ==
    CASE file.kind = "missing" -> "fail"
      [] file.kind = "not_json" -> "JSONDecodeError"
      [] file.kind = "number" -> "TypeError"
      [] file.kind = "array" -> "fail"
      [] OTHER ->
           IF Has(file.content, "id") /\ Has(file.content, "version")
           THEN "pass" ELSE "fail"

\* _is_map_client_provenance_file: "pass", "fail", or the exception it raises
IsMapClientProvenanceFile(file) ==
    CASE file.kind = "missing" -> "fail"
      [] file.kind = "not_json" -> "JSONDecodeError"
      [] file.kind = "number" -> "TypeError"
      [] file.kind = "array" -> "fail"
      [] OTHER ->
           IF /\ Has(file.content, "id")
              /\ file.content["id"] = Sentinel
              /\ Has(file.content, "version")
           THEN "pass" ELSE "fail"

\* the default interpreter of schema 0.1.0 on darwin
DefaultPython == Obj("version", V_3_11_11) @@ Obj("platform", Darwin)

\* a wrong reading of line 163: the version texts compared as strings
PlatformMatch_TextEquality(info, h) ==
    IF ~Has(info, "version") THEN "KeyError"
    ELSE IF ~VersionValid(info["version"]) THEN "InvalidVersion"
    ELSE IF h.python_version # info["version"] THEN "False"
    ELSE IF ~Has(info, "platform") THEN "KeyError"
    ELSE IF info["platform"] = h.platform THEN "True" ELSE "False"

\* a wrong reading of line 163: the same major.minor is compatible enough
PlatformMatch_MinorCompatible(info, h) ==
    IF ~Has(info, "version") THEN "KeyError"
    ELSE IF ~VersionValid(info["version"]) THEN "InvalidVersion"
    ELSE IF SubSeq(VersionKey(h.python_version), 1, 2) # SubSeq(VersionKey(info["version"]), 1, 2)
         THEN "False"
    ELSE IF ~Has(info, "platform") THEN "KeyError"
    ELSE IF info["platform"] = h.platform THEN "True" ELSE "False"

\* _platform_match(info): "True", "False", or the exception it raises
PlatformMatch(info, h) ==
    IF ~Has(info, "version") THEN "KeyError"
    ELSE IF ~VersionValid(info["version"]) THEN "InvalidVersion"
    ELSE IF ~VersionEq(h.python_version, info["version"]) THEN "False"
    ELSE IF ~Has(info, "platform") THEN "KeyError"
    ELSE IF info["platform"] = h.platform THEN "True" ELSE "False"

\* _map_client_requirements(info)
MapClientRequirements(info) == << <<"mapclient">> \o <<" == ">> \o info["version"] >>

RECURSIVE PackageRequirements_DefaultRegistryOnly(_)
\* a wrong reading of lines 134-137: a package from elsewhere is left out
PackageRequirements_DefaultRegistryOnly(info) ==
    IF info = <<>> THEN <<>>
    ELSE (IF info[1].data["location"] = PyPI
          THEN << info[1].name \o <<" == ">> \o info[1].data["version"] >>
          ELSE <<>>)
         \o PackageRequirements_DefaultRegistryOnly(Tail(info))

\* _package_requirements(info)
PackageRequirements(info) ==
    [i \in 1..Len(info) |-> info[i].name \o <<" == ">> \o info[i].data["version"]]

\* _plugin_requirements(info)
PluginRequirements(info) == info

\* lines 198-202 raise KeyError when a sub-section or a field they read is absent
RequirementsReadable(info) ==
    /\ Has(info, "mapclient") /\ Has(info["mapclient"], "version")
    /\ Has(info, "packages")
    /\ \A i \in 1..Len(info["packages"]) :
          /\ Has(info["packages"][i].data, "version")
          /\ Has(info["packages"][i].data, "location")
    /\ Has(info, "plugins")

RECURSIVE JoinLines(_)
\* "\n".join(lines)
JoinLines(lines) ==
    IF lines = <<>> THEN <<>>
    ELSE IF Len(lines) = 1 THEN lines[1]
    ELSE lines[1] \o <<"\n">> \o JoinLines(Tail(lines))

\* a wrong reading of the branch name: the bare version
BranchName_WithoutPrefix(p_data) == p_data["version"]

\* f"v{p_data['version']}"
BranchName(p_data) == <<"v">> \o p_data["version"]

\* the stderr text line 231 compares with
AlreadyExistsMessage(p_data) ==
    <<"fatal: a branch named '">> \o BranchName(p_data) \o <<"' already exists\n">>

\* a wrong reading of line 231: whatever git switch answers, the run goes on
SwitchFailed_AnyRefusalTolerated(result, p_data) == FALSE

\* a wrong reading of line 231: every non-zero exit of git switch is a failure
SwitchFailed_AnyNonZero(result, p_data) == result.rc # 0

\* line 231: git switch failed, and not because the branch exists
SwitchFailed(result, p_data) ==
    result.rc # 0 /\ result.stderr # AlreadyExistsMessage(p_data)

CloneArgv(exe, p) ==
    << exe, <<"clone">>, <<"--depth">>, <<"1">>, <<"--branch">>, BranchName(p.data),
       p.data["location"], p.name >>

SwitchArgv(exe, p) == << exe, <<"switch">>, <<"-c">>, BranchName(p.data) >>

EchoArgv(p) == << <<"echo">>, Join(PluginDir, p.name) >>

\* one subprocess.run call and its result
Run(argv, cwd, rc, stderr) == [argv |-> argv, cwd |-> cwd, rc |-> rc, stderr |-> stderr]

\* cwd of a subprocess.run call that passes none
InheritedCwd == <<".">>

-----------------------------------------------------------------------------
(* main() *)

Init ==
    /\ pc = "SetupDirCheck"
    /\ exitCode = NoExit
    /\ raised = "none"
    /\ host \in Hosts
    /\ provenance \in ProvenanceFiles
    /\ fs \in SetupDirectories(provenance)
    /\ fs0 = fs
    /\ software_info = NoContent
    /\ python_info = NoContent
    /\ git_exe = None
    /\ requirements = <<>>
    /\ plugin_requirements = <<>>
    /\ idx = 1
    /\ log = <<>>
    /\ which_call = NoWhichCall

inputs == <<host, provenance, fs0>>
locals == <<software_info, python_info, git_exe, requirements, plugin_requirements, idx>>

\* return code
Return(code) == pc' = "done" /\ exitCode' = code /\ raised' = "none"

\* an exception leaves main() and sys.exit is never reached
Raise(exception) == pc' = "done" /\ exitCode' = UncaughtExitCode /\ raised' = exception

Goto(label) == pc' = label /\ UNCHANGED <<exitCode, raised>>

\* the head of the plugin loop: the i-th plugin, or what follows the loop
LoopHead(i) == IF i <= Len(plugin_requirements) THEN "CloneOrReuse" ELSE "TemporaryInstall"

\* lines 170-171
SetupDirCheck ==
    /\ pc = "SetupDirCheck"
    /\ IF ~fs.isdir THEN Return(SETUP_DIR_INVALID) ELSE Goto("ProvenanceFileCheck")
    /\ UNCHANGED <<which_call, inputs, fs, locals, log>>

\* lines 173-174
ProvenanceFileCheck ==
    /\ pc = "ProvenanceFileCheck"
    /\ LET outcome == IsMapClientProvenanceFile(provenance) IN
       CASE outcome = "pass" -> Goto("ParseRecord")
         [] outcome = "fail" -> Return(PROVENANCE_FILE_INVALID)
         [] OTHER -> Raise(outcome)
    /\ UNCHANGED <<which_call, inputs, fs, locals, log>>

\* lines 176-187
ParseRecord ==
    /\ pc = "ParseRecord"
    /\ LET content == provenance.content IN
       IF ~Has(content, "software_info")
       THEN Raise("KeyError") /\ UNCHANGED <<software_info, python_info>>
       ELSE /\ software_info' = content["software_info"]
            /\ IF ~VersionValid(content["version"])
               THEN Raise("InvalidVersion") /\ UNCHANGED python_info
               ELSE IF VersionEq(content["version"], V_0_1_0)
               THEN IF host.platform = Darwin
                    THEN python_info' = DefaultPython /\ Goto("PlatformMatch")
                    ELSE Return(DEFAULT_PYTHON_NOT_SET) /\ UNCHANGED python_info
               ELSE IF ~Has(content["software_info"], "python")
                    THEN Raise("KeyError") /\ UNCHANGED python_info
                    ELSE /\ python_info' = content["software_info"]["python"]
                         /\ Goto("PlatformMatch")
    /\ UNCHANGED <<which_call, inputs, fs, git_exe, requirements, plugin_requirements, idx, log>>

\* a wrong reading of lines 189-192: the mismatch is reported, the run goes on
PlatformGate_GoesOn ==
    /\ pc = "PlatformMatch"
    /\ LET outcome == PlatformMatch(python_info, host) IN
       CASE outcome \in {"True", "False"} -> Goto("LocateGit")
         [] OTHER -> Raise(outcome)
    /\ UNCHANGED <<which_call, inputs, fs, locals, log>>

\* lines 189-192; the message of line 190 reads both fields of python_info
PlatformGate ==
    /\ pc = "PlatformMatch"
    /\ LET outcome == PlatformMatch(python_info, host) IN
       CASE outcome = "True" -> Goto("LocateGit")
         [] outcome = "False" ->
              IF Has(python_info, "platform") /\ Has(python_info, "version")
              THEN Return(PLATFORM_MISMATCH) ELSE Raise("KeyError")
         [] OTHER -> Raise(outcome)
    /\ UNCHANGED <<which_call, inputs, fs, locals, log>>

\* lines 194-196
LocateGit ==
    /\ pc = "LocateGit"
    /\ \E env \in SearchEnvs :
          /\ git_exe' = Which(<<"git">>, env)
          /\ IF git_exe' = None
             THEN Return(GIT_EXECUTABLE_NOT_FOUND) ELSE Goto("AssembleRequirements")
    /\ UNCHANGED <<which_call, inputs, fs, software_info, python_info, requirements,
                   plugin_requirements, idx, log>>

\* lines 198-202
AssembleRequirements ==
    /\ pc = "AssembleRequirements"
    /\ IF ~RequirementsReadable(software_info)
       THEN Raise("KeyError") /\ UNCHANGED <<requirements, plugin_requirements>>
       ELSE /\ requirements' = MapClientRequirements(software_info["mapclient"])
                                  \o PackageRequirements(software_info["packages"])
            /\ plugin_requirements' = PluginRequirements(software_info["plugins"])
            /\ Goto("CreateVirtualEnv")
    /\ UNCHANGED <<which_call, inputs, fs, software_info, python_info, git_exe, idx, log>>

\* a wrong reading of lines 204-206: the exit status of venv is not looked at
CreateVirtualEnv_FailureIgnored ==
    /\ pc = "CreateVirtualEnv"
    /\ \E rc \in {0, 1}, left \in BOOLEAN :
          /\ log' = Append(log, Run(<<SysExecutable, <<"-m">>, <<"venv">>, VenvDirectoryName>>,
                                    SetupDir, rc, <<>>))
          /\ fs' = [fs EXCEPT !.venv = IF rc = 0 THEN TRUE ELSE (fs.venv \/ left)]
          /\ Goto("WriteRequirements")
    /\ UNCHANGED <<which_call, inputs, locals>>

\* lines 204-206; what a failed creation leaves behind is the tool's affair
CreateVirtualEnv ==
    /\ pc = "CreateVirtualEnv"
    /\ \E rc \in {0, 1}, left \in BOOLEAN :
          /\ log' = Append(log, Run(<<SysExecutable, <<"-m">>, <<"venv">>, VenvDirectoryName>>,
                                    SetupDir, rc, <<>>))
          /\ fs' = [fs EXCEPT !.venv = IF rc = 0 THEN TRUE ELSE (fs.venv \/ left)]
          /\ IF rc # 0 THEN Return(VIRTUALENV_SETUP_FAILED) ELSE Goto("WriteRequirements")
    /\ UNCHANGED <<which_call, inputs, locals>>

\* a wrong reading of line 208: the file opened for appending
WriteRequirements_Appends ==
    /\ pc = "WriteRequirements"
    /\ fs' = [fs EXCEPT !.requirements =
                 [exists |-> TRUE, text |-> fs.requirements.text \o JoinLines(requirements)]]
    /\ Goto("InstallRequirements")
    /\ UNCHANGED <<which_call, inputs, locals, log>>

\* lines 208-209
WriteRequirements ==
    /\ pc = "WriteRequirements"
    /\ fs' = [fs EXCEPT !.requirements = [exists |-> TRUE, text |-> JoinLines(requirements)]]
    /\ Goto("InstallRequirements")
    /\ UNCHANGED <<which_call, inputs, locals, log>>

\* lines 211-215
InstallRequirements ==
    /\ pc = "InstallRequirements"
    /\ \E rc \in {0, 1} :
          /\ log' = Append(log, Run(<<GetVirtualEnvironmentPip(SetupDir, VenvDirectoryName),
                                      <<"install">>, <<"-r">>, <<"requirements.txt">>>>,
                                    SetupDir, rc, <<>>))
          /\ IF rc # 0 THEN Return(REQUIREMENTS_INSTALL_FAILED) ELSE Goto("EnsurePluginDir")
    /\ UNCHANGED <<which_call, inputs, fs, locals>>

\* lines 217-218, and the first test of the loop of line 220
EnsurePluginDir ==
    /\ pc = "EnsurePluginDir"
    /\ fs' = [fs EXCEPT !.plugins_dir = TRUE]
    /\ idx' = 1
    /\ Goto(LoopHead(1))
    /\ UNCHANGED <<which_call, inputs, software_info, python_info, git_exe, requirements,
                   plugin_requirements, log>>

\* lines 221-228, the existing checkout: echo, whose failure message reads the version
Reuse ==
    /\ pc = "CloneOrReuse"
    /\ LET p == plugin_requirements[idx] IN
       /\ p.name \in fs.checkouts
       /\ \E rc \in {0, 1} :
             /\ log' = Append(log, Run(EchoArgv(p), InheritedCwd, rc, <<>>))
             /\ IF rc = 0 THEN Goto("BranchSwitch")
                ELSE IF Has(p.data, "version") THEN Return(PLUGIN_CLONE_FAILED)
                ELSE Raise("KeyError")
    /\ UNCHANGED <<which_call, inputs, fs, locals>>

\* a wrong reading of lines 226-228: a plugin that cannot be cloned is skipped
Clone_FailureSkipsPlugin ==
    /\ pc = "CloneOrReuse"
    /\ LET p == plugin_requirements[idx] IN
       /\ p.name \notin fs.checkouts
       /\ IF ~Has(p.data, "version") \/ ~Has(p.data, "location")
          THEN Raise("KeyError") /\ UNCHANGED <<fs, log, idx>>
          ELSE \E rc \in {0, 128} :
                  /\ log' = Append(log, Run(CloneArgv(git_exe, p), PluginDir, rc, <<>>))
                  /\ fs' = [fs EXCEPT !.checkouts = IF rc = 0 THEN @ \cup {p.name} ELSE @]
                  /\ IF rc = 0 THEN Goto("BranchSwitch") /\ UNCHANGED idx
                     ELSE idx' = idx + 1 /\ Goto(LoopHead(idx + 1))
    /\ UNCHANGED <<which_call, inputs, software_info, python_info, git_exe, requirements,
                   plugin_requirements>>

\* lines 221-228, no checkout yet: git clone, whose arguments read version and location
Clone ==
    /\ pc = "CloneOrReuse"
    /\ LET p == plugin_requirements[idx] IN
       /\ p.name \notin fs.checkouts
       /\ IF ~Has(p.data, "version") \/ ~Has(p.data, "location")
          THEN Raise("KeyError") /\ UNCHANGED <<fs, log>>
          ELSE \E rc \in {0, 128} :
                  /\ log' = Append(log, Run(CloneArgv(git_exe, p), PluginDir, rc, <<>>))
                  /\ fs' = [fs EXCEPT !.checkouts = IF rc = 0 THEN @ \cup {p.name} ELSE @]
                  /\ IF rc = 0 THEN Goto("BranchSwitch") ELSE Return(PLUGIN_CLONE_FAILED)
    /\ UNCHANGED <<which_call, inputs, locals>>

\* what git switch -c <branch> may answer: done; refused because the branch
\* exists; refused for another reason
SwitchResults(branch) ==
    { [rc |-> 0, stderr |-> <<>>],
      [rc |-> 128, stderr |-> <<"fatal: a branch named '">> \o branch \o <<"' already exists\n">>],
      [rc |-> 128, stderr |-> <<"fatal: not a git repository\n">>] }

\* a wrong reading of line 220: the loop does not move on to the next plugin
BranchSwitch_StaysOnPlugin ==
    /\ pc = "BranchSwitch"
    /\ LET p == plugin_requirements[idx] IN
       IF ~Has(p.data, "version")
       THEN Raise("KeyError") /\ UNCHANGED <<idx, log>>
       ELSE \E result \in SwitchResults(SwitchArgv(git_exe, p)[4]) :
               /\ log' = Append(log, Run(SwitchArgv(git_exe, p), Join(PluginDir, p.name),
                                         result.rc, result.stderr))
               /\ IF SwitchFailed(result, p.data)
                  THEN Return(GIT_SWITCH_FAILED) /\ UNCHANGED idx
                  ELSE idx' = idx /\ Goto(LoopHead(idx))
    /\ UNCHANGED <<which_call, inputs, fs, software_info, python_info, git_exe, requirements,
                   plugin_requirements>>

\* lines 230-233, and the next test of the loop of line 220
BranchSwitch ==
    /\ pc = "BranchSwitch"
    /\ LET p == plugin_requirements[idx] IN
       IF ~Has(p.data, "version")
       THEN Raise("KeyError") /\ UNCHANGED <<idx, log>>
       ELSE \E result \in SwitchResults(SwitchArgv(git_exe, p)[4]) :
               /\ log' = Append(log, Run(SwitchArgv(git_exe, p), Join(PluginDir, p.name),
                                         result.rc, result.stderr))
               /\ IF SwitchFailed(result, p.data)
                  THEN Return(GIT_SWITCH_FAILED) /\ UNCHANGED idx
                  ELSE idx' = idx + 1 /\ Goto(LoopHead(idx + 1))
    /\ UNCHANGED <<which_call, inputs, fs, software_info, python_info, git_exe, requirements,
                   plugin_requirements>>

\* line 236: the result is not looked at
TemporaryInstall ==
    /\ pc = "TemporaryInstall"
    /\ \E rc \in {0, 1} :
          log' = Append(log, Run(<<GetVirtualEnvironmentPip(SetupDir, VenvDirectoryName),
                                   <<"install">>, <<"-e">>,
                                   <<"/Users/hsor001/Projects/musculoskeletal/mapclient/src">>>>,
                                 InheritedCwd, rc, <<>>))
    /\ Goto("Activate")
    /\ UNCHANGED <<which_call, inputs, fs, locals>>

\* a wrong reading of lines 240-243: the exit status of mapclient_use is not looked at
Activate_ResultIgnored ==
    /\ pc = "Activate"
    /\ \E rc \in {0, 1} :
          /\ log' = Append(log, Run(<<GetVirtualEnvironmentMapClientUse(SetupDir, VenvDirectoryName),
                                      SetupDir, <<"-d">>, PluginDir>>,
                                    InheritedCwd, rc, <<>>))
          /\ Return(SUCCESS)
    /\ UNCHANGED <<which_call, inputs, fs, locals>>

\* lines 238-243
Activate ==
    /\ pc = "Activate"
    /\ \E rc \in {0, 1} :
          /\ log' = Append(log, Run(<<GetVirtualEnvironmentMapClientUse(SetupDir, VenvDirectoryName),
                                      SetupDir, <<"-d">>, PluginDir>>,
                                    InheritedCwd, rc, <<>>))
          /\ IF rc # 0 THEN Return(MAPCLIENT_USE_FAILED) ELSE Return(SUCCESS)
    /\ UNCHANGED <<which_call, inputs, fs, locals>>

Next ==
    \/ SetupDirCheck
    \/ ProvenanceFileCheck
    \/ ParseRecord
    \/ PlatformGate
    \/ LocateGit
    \/ AssembleRequirements
    \/ CreateVirtualEnv
    \/ WriteRequirements
    \/ InstallRequirements
    \/ EnsurePluginDir
    \/ Reuse
    \/ Clone
    \/ BranchSwitch
    \/ TemporaryInstall
    \/ Activate

Spec == Init /\ [][Next]_vars

\* every step of main() is eventually taken: subprocess.run returns
FairSpec == Spec /\ WF_vars(Next)

Done == pc = "done"

-----------------------------------------------------------------------------
(* _which, statement by statement: the call of line 194, for any command    *)

mainvars == <<pc, exitCode, raised, host, provenance, fs, fs0, software_info, python_info,
              git_exe, requirements, plugin_requirements, idx, log>>

\* main() stands at line 194, on a complete record that matches the host
WhichInit ==
    /\ pc = "LocateGit"
    /\ exitCode = NoExit
    /\ raised = "none"
    /\ host = [platform |-> Linux, python_version |-> V_3_11_10]
    /\ provenance = [kind |-> "object",
                     content |-> Obj("id", Sentinel) @@ Obj("version", V_0_2_0)
                                 @@ Obj("software_info",
                                        SoftwareInfo(Obj("python", StdPython),
                                                     Obj("mapclient", StdMapClient),
                                                     Obj("packages", StdPackages),
                                                     Obj("plugins", StdPlugins)))]
    /\ fs = [isdir |-> TRUE, requirements |-> NoFile, venv |-> FALSE, plugins_dir |-> FALSE,
             checkouts |-> {}]
    /\ fs0 = fs
    /\ software_info = provenance.content["software_info"]
    /\ python_info = StdPython
    /\ git_exe = None
    /\ requirements = <<>>
    /\ plugin_requirements = <<>>
    /\ idx = 1
    /\ log = <<>>
    /\ which_call \in WhichCalls

\* lines 63-77: a command with a directory part is looked up directly
WhichDirect ==
    /\ which_call.at = "enter"
    /\ Dirname(which_call.cmd) # <<>>
    /\ which_call' = [which_call EXCEPT
          !.tried = <<which_call.cmd>>,
          !.result = IF AccessCheck(which_call.env.entry[Dirname(which_call.cmd)])
                     THEN which_call.cmd ELSE None,
          !.at = "done"]
    /\ UNCHANGED mainvars

\* lines 79-83 and 100-105: PATH, or os.defpath when PATH is not set
WhichResolvePath ==
    /\ which_call.at = "enter"
    /\ Dirname(which_call.cmd) = <<>>
    /\ LET path == IF which_call.env.path_set THEN which_call.env.path ELSE DefPath IN
       which_call' = IF path = <<>>
                     THEN [which_call EXCEPT !.result = None, !.at = "done"]
                     ELSE [which_call EXCEPT !.path = path, !.seen = {}, !.at = "loop"]
    /\ UNCHANGED mainvars

\* lines 106-113: one turn of the loop over the directories
WhichTryDirectory ==
    /\ which_call.at = "loop"
    /\ which_call.path # <<>>
    /\ LET directory == Head(which_call.path)
           name == Join(directory, which_call.cmd)
       IN  which_call' =
             IF directory \in which_call.seen
             THEN [which_call EXCEPT !.path = Tail(@)]
             ELSE IF AccessCheck(which_call.env.entry[directory])
             THEN [which_call EXCEPT !.seen = @ \cup {directory}, !.tried = Append(@, name),
                                     !.result = name, !.at = "done"]
             ELSE [which_call EXCEPT !.seen = @ \cup {directory}, !.tried = Append(@, name),
                                     !.path = Tail(@)]
    /\ UNCHANGED mainvars

\* line 115
WhichExhausted ==
    /\ which_call.at = "loop"
    /\ which_call.path = <<>>
    /\ which_call' = [which_call EXCEPT !.result = None, !.at = "done"]
    /\ UNCHANGED mainvars

WhichNext ==
    \/ WhichDirect
    \/ WhichResolvePath
    \/ WhichTryDirectory
    \/ WhichExhausted

WhichSpec == WhichInit /\ [][WhichNext]_vars

-----------------------------------------------------------------------------
(* What the claims speak of, in terms of the inputs and the record of the run *)

IsObject == provenance.kind = "object"
Content == provenance.content

IdIsSentinel == IsObject /\ Has(Content, "id") /\ Content["id"] = Sentinel
HasSchemaVersion == IsObject /\ Has(Content, "version")
LoaderAccepts == IdIsSentinel /\ HasSchemaVersion

LegacySchema ==
    /\ HasSchemaVersion
    /\ VersionValid(Content["version"])
    /\ VersionKey(Content["version"]) = <<0, 1>>

WellFormedInterpreter(info) ==
    Has(info, "version") /\ VersionValid(info["version"]) /\ Has(info, "platform")

WellFormedItems(items) ==
    \A i \in 1..Len(items) :
        /\ Has(items[i].data, "version") /\ VersionValid(items[i].data["version"])
        /\ Has(items[i].data, "location")

\* a record with every section and field of the data model
ValidRecord ==
    /\ LoaderAccepts
    /\ VersionValid(Content["version"])
    /\ Has(Content, "software_info")
    /\ LET info == Content["software_info"] IN
       /\ LegacySchema \/ (Has(info, "python") /\ WellFormedInterpreter(info["python"]))
       /\ Has(info, "mapclient") /\ Has(info["mapclient"], "version")
       /\ Has(info, "packages") /\ WellFormedItems(info["packages"])
       /\ Has(info, "plugins") /\ WellFormedItems(info["plugins"])

\* the run gets as far as comparing an expected interpreter with the host's
ExpectedInterpreterKnown ==
    /\ fs0.isdir
    /\ LoaderAccepts
    /\ VersionValid(Content["version"])
    /\ Has(Content, "software_info")
    /\ IF LegacySchema THEN host.platform = Darwin
       ELSE /\ Has(Content["software_info"], "python")
            /\ WellFormedInterpreter(Content["software_info"]["python"])

ExpectedInterpreter ==
    IF LegacySchema THEN [version |-> V_3_11_11, platform |-> Darwin]
    ELSE [version |-> Content["software_info"]["python"]["version"],
          platform |-> Content["software_info"]["python"]["platform"]]

InterpreterMatches ==
    /\ ExpectedInterpreterKnown
    /\ VersionKey(ExpectedInterpreter.version) = VersionKey(host.python_version)
    /\ ExpectedInterpreter.platform = host.platform

Returned(code) == Done /\ raised = "none" /\ exitCode = code

IsVenvRun(r) == r.argv = <<SysExecutable, <<"-m">>, <<"venv">>, <<"venv_map_client">>>>
IsCloneRun(r) == Len(r.argv) > 1 /\ r.argv[2] = <<"clone">>
IsSwitchRun(r) == Len(r.argv) > 1 /\ r.argv[2] = <<"switch">>
IsEchoRun(r) == r.argv[1] = <<"echo">>

Untouched == fs = fs0 /\ log = <<>>

-----------------------------------------------------------------------------
(* C1: for every valid record whose expected interpreter version and        *)
(* platform equal the host's, with the setup directory existing, git        *)
(* located and every external tool exiting zero, the run terminates with    *)
(* exit code 0, having written requirements.txt, created the environment    *)
(* and left a checkout under <setup_dir>/plugins for every recorded plugin. *)

\* the search for git and the tools answer as the run goes: a run to which
\* git was located is one that does not end with GIT_EXECUTABLE_NOT_FOUND
C1_Given ==
    /\ fs0.isdir
    /\ \A i \in 1..Len(log) : log[i].rc = 0
    /\ ~Returned(GIT_EXECUTABLE_NOT_FOUND)
    /\ ValidRecord
    /\ InterpreterMatches

C1_Result ==
    /\ Returned(0)
    /\ fs.requirements.exists /\ fs.requirements.text = JoinLines(requirements)
    /\ fs.venv /\ \E i \in 1..Len(log) : IsVenvRun(log[i]) /\ log[i].rc = 0
    /\ fs.plugins_dir
    /\ \A name \in RecordedPluginNames(provenance) : name \in fs.checkouts

\* the run never stops short of its end, and its end is the success
C1_FullRunSucceeds ==
    /\ C1_Given => (Done \/ ENABLED Next)
    /\ (Done /\ C1_Given) => C1_Result

C1_Witness ==
    /\ Done /\ C1_Given /\ C1_Result
    /\ plugin_requirements # <<>>
    /\ fs0.checkouts = {}
    /\ ExpectedInterpreter.version # host.python_version

(* C2: with the setup directory existing, a provenance file that is         *)
(* missing, is not parseable as structured data, or lacks the               *)
(* schema-version field makes the run fail with PROVENANCE_FILE_INVALID     *)
(* (exit code 2) and end in no other way.                                   *)

C2_InvalidFileYieldsCode2 ==
    (/\ Done
     /\ fs0.isdir
     /\ \/ provenance.kind \in {"missing", "not_json"}
        \/ IsObject /\ ~Has(Content, "version"))
    => Returned(PROVENANCE_FILE_INVALID)

(* C3: with the setup directory existing, every record whose id is absent   *)
(* or differs from the sentinel makes the run fail with exit code 2,        *)
(* whatever its other fields are.                                           *)

C3_WrongIdYieldsCode2 ==
    (Done /\ fs0.isdir /\ IsObject /\ ~IdIsSentinel) => (Returned(2) /\ Untouched)

C3_Witness ==
    /\ Returned(2) /\ fs0.isdir /\ IsObject
    /\ Has(Content, "id") /\ Content["id"] # Sentinel
    /\ Has(Content, "version") /\ Has(Content, "software_info")
    /\ Has(Content["software_info"], "plugins")
    /\ Content["software_info"]["plugins"] # <<>>

(* C4: every run, for every input record and every combination of tool      *)
(* outcomes, ends in one of the eleven terminal states with exit code       *)
(* 0..10, also when the record passes the loader and lacks a sub-section    *)
(* the later stages read.  Stated of the records that pass the loader with  *)
(* a schema version Version() accepts.                                      *)

C4_EndsInTaxonomy ==
    (Done /\ fs0.isdir /\ LoaderAccepts /\ VersionValid(Content["version"]))
    => (raised = "none" /\ exitCode \in 0..10)

(* C5: a record with schema version 0.1.0 on a host platform other than     *)
(* darwin makes the run fail with exit code 3, no filesystem mutation and   *)
(* no external tool invocation having occurred.                             *)

C5_LegacyWithoutDefaultYieldsCode3 ==
    (Done /\ fs0.isdir /\ LoaderAccepts /\ LegacySchema /\ host.platform # Darwin)
    => (Returned(DEFAULT_PYTHON_NOT_SET) /\ Untouched)

(* C6: the platform gate passes exactly when the expected interpreter       *)
(* version equals the host's under semantic-version equality and the        *)
(* expected platform equals the host's; in every other case, a difference   *)
(* in the patch version alone included, the run fails with exit code 4.     *)

BeforeGate == {"SetupDirCheck", "ProvenanceFileCheck", "ParseRecord", "PlatformMatch"}

C6_GateIsEquality ==
    (pc \notin BeforeGate /\ ExpectedInterpreterKnown) =>
        IF /\ VersionKey(ExpectedInterpreter.version) = VersionKey(host.python_version)
           /\ ExpectedInterpreter.platform = host.platform
        THEN Done => (exitCode # PLATFORM_MISMATCH /\ (raised = "none" => exitCode \in {0} \cup 5..10))
        ELSE Returned(PLATFORM_MISMATCH)

C6_Witness ==
    /\ Returned(PLATFORM_MISMATCH)
    /\ ExpectedInterpreterKnown
    /\ ExpectedInterpreter.version = V_3_11_11 /\ host.python_version = V_3_11_10
    /\ ExpectedInterpreter.platform = host.platform

(* C7: no external tool is invoked and nothing is created or written under  *)
(* the setup directory until the platform match has passed and git has been *)
(* found; a run that ends with exit code 4 or 5 leaves the filesystem as it *)
(* was.                                                                     *)

C7_GatesPrecedeMutation ==
    /\ ~Untouched => (InterpreterMatches /\ git_exe # None)
    /\ (Returned(PLATFORM_MISMATCH) \/ Returned(GIT_EXECUTABLE_NOT_FOUND)) => Untouched

C7_Witness ==
    /\ Returned(GIT_EXECUTABLE_NOT_FOUND)
    /\ InterpreterMatches
    /\ fs0.requirements = StaleFile /\ fs0.checkouts # {}
    /\ Untouched

(* C8: a run ends with code k in 1..10 only when the check or subprocess of *)
(* stage k failed and every earlier stage succeeded: the exit code is that  *)
(* of the first failing stage and no two stages share a code.               *)

Last(seq) == seq[Len(seq)]

IsPipRequirementsRun(r) == Len(r.argv) > 2 /\ r.argv[2] = <<"install">> /\ r.argv[3] = <<"-r">>
IsTemporaryInstallRun(r) == Len(r.argv) > 2 /\ r.argv[2] = <<"install">> /\ r.argv[3] = <<"-e">>
IsActivationRun(r) == Len(r.argv) > 2 /\ r.argv[3] = <<"-d">>

BranchExistsReported(r) ==
    /\ IsSwitchRun(r)
    /\ r.stderr = <<"fatal: a branch named '">> \o r.argv[4] \o <<"' already exists\n">>

\* the stage whose check or subprocess failed last
StageFailed(k) ==
    CASE k = 1 -> ~fs0.isdir
      [] k = 2 -> fs0.isdir /\ ~LoaderAccepts
      [] k = 3 -> fs0.isdir /\ LoaderAccepts /\ LegacySchema /\ host.platform # Darwin
      [] k = 4 -> ExpectedInterpreterKnown /\ ~InterpreterMatches
      [] k = 5 -> InterpreterMatches /\ git_exe = None
      [] k = 6 -> log # <<>> /\ IsVenvRun(Last(log)) /\ Last(log).rc # 0
      [] k = 7 -> log # <<>> /\ IsPipRequirementsRun(Last(log)) /\ Last(log).rc # 0
      [] k = 8 -> log # <<>> /\ (IsCloneRun(Last(log)) \/ IsEchoRun(Last(log))) /\ Last(log).rc # 0
      [] k = 9 -> log # <<>> /\ IsSwitchRun(Last(log)) /\ Last(log).rc # 0
                            /\ ~BranchExistsReported(Last(log))
      [] k = 10 -> log # <<>> /\ IsActivationRun(Last(log)) /\ Last(log).rc # 0

\* no stage before the last subprocess failed
EarlierStagesSucceeded ==
    /\ Len(log) <= 1 \/ InterpreterMatches
    /\ \A i \in 1..(Len(log) - 1) :
          \/ log[i].rc = 0
          \/ BranchExistsReported(log[i])
          \/ IsTemporaryInstallRun(log[i])

C8_CodeIsFirstFailingStage ==
    (Done /\ exitCode \in 1..10) => (StageFailed(exitCode) /\ EarlierStagesSucceeded)

\* the same, of the runs in which main() returns
C8_ReturnedCodeIsFirstFailingStage ==
    (Done /\ raised = "none" /\ exitCode \in 1..10)
    => (StageFailed(exitCode) /\ EarlierStagesSucceeded)

(* C9: when plugins/<name> exists before the run, no git clone is invoked   *)
(* for that plugin, the branch switch is still performed for it once the    *)
(* reuse step is through, and a switch refused only because branch          *)
(* v<version> exists counts as success: the run goes on to the next plugin  *)
(* or to activation and does not end with code 8 or 9 there.                *)

RecordedPlugins ==
    IF IsObject /\ Has(Content, "software_info") /\ Has(Content["software_info"], "plugins")
    THEN Content["software_info"]["plugins"] ELSE <<>>

CheckoutOf(name) == Join(Join(SetupDir, <<"plugins">>), name)

\* the run has gone on from the k-th plugin, log[i] being the last call made
\* for it (the next plugin is then read, which raises when its data lack a field)
WentOnFrom(k, i) ==
    IF i = Len(log)
    THEN /\ idx = k + 1
         /\ IF k < Len(RecordedPlugins)
            THEN \/ pc = "CloneOrReuse"
                 \/ Done /\ raised = "KeyError" /\ ~WellFormedItems(<<RecordedPlugins[k + 1]>>)
            ELSE pc = "TemporaryInstall"
    ELSE IF k < Len(RecordedPlugins)
         THEN \/ IsCloneRun(log[i + 1]) /\ Last(log[i + 1].argv) = RecordedPlugins[k + 1].name
              \/ IsEchoRun(log[i + 1]) /\ log[i + 1].argv[2] = CheckoutOf(RecordedPlugins[k + 1].name)
         ELSE IsTemporaryInstallRun(log[i + 1])

C9_ExistingCheckoutIsReused ==
    \A k \in 1..Len(RecordedPlugins) :
        LET name == RecordedPlugins[k].name
            data == RecordedPlugins[k].data
        IN  (name \in fs0.checkouts /\ Has(data, "version")) =>
            /\ \A i \in 1..Len(log) : ~(IsCloneRun(log[i]) /\ Last(log[i].argv) = name)
            /\ \A i \in 1..Len(log) :
                  (IsEchoRun(log[i]) /\ log[i].argv[2] = CheckoutOf(name) /\ log[i].rc = 0) =>
                      IF i = Len(log) THEN pc = "BranchSwitch"
                      ELSE IsSwitchRun(log[i + 1]) /\ log[i + 1].cwd = CheckoutOf(name)
            /\ \A i \in 1..Len(log) :
                  (/\ IsSwitchRun(log[i]) /\ log[i].cwd = CheckoutOf(name)
                   /\ log[i].rc # 0
                   /\ log[i].stderr = <<"fatal: a branch named '", "v">> \o data["version"]
                                          \o <<"' already exists\n">>)
                  => WentOnFrom(k, i)

C9_Witness ==
    /\ Returned(0)
    /\ Len(RecordedPlugins) = MaxPlugins
    /\ fs0.checkouts = RecordedPluginNames(provenance)
    /\ \A i \in 1..Len(log) : IsSwitchRun(log[i]) => BranchExistsReported(log[i]) /\ log[i].rc # 0
    /\ \A i \in 1..Len(log) : ~IsCloneRun(log[i])

(* C10: for every plugin with recorded version V and location L the clone   *)
(* is invoked as `clone --depth 1 --branch vV L <name>` inside the plugins  *)
(* directory and the switch that follows as `switch -c vV` inside           *)
(* <plugins>/<name>: both name the branch v followed by the recorded        *)
(* version of that same plugin.                                             *)

C10_BranchIsVPlusVersion ==
    \A k \in 1..Len(RecordedPlugins) :
        LET name == RecordedPlugins[k].name
            data == RecordedPlugins[k].data
        IN  (Has(data, "version") /\ Has(data, "location")) =>
            /\ \A i \in 1..Len(log) :
                  (IsCloneRun(log[i]) /\ Last(log[i].argv) = name) =>
                      /\ log[i].argv = << git_exe, <<"clone">>, <<"--depth">>, <<"1">>, <<"--branch">>,
                                          <<"v">> \o data["version"], data["location"], name >>
                      /\ log[i].cwd = Join(SetupDir, <<"plugins">>)
                      /\ log[i].rc = 0 =>
                            IF i = Len(log) THEN pc = "BranchSwitch"
                            ELSE IsSwitchRun(log[i + 1]) /\ log[i + 1].cwd = CheckoutOf(name)
            /\ \A i \in 1..Len(log) :
                  log[i].cwd = CheckoutOf(name) =>
                      log[i].argv = << git_exe, <<"switch">>, <<"-c">>, <<"v">> \o data["version"] >>
            /\ Returned(0) =>
                  /\ name \notin fs0.checkouts =>
                        \E i \in 1..Len(log) : IsCloneRun(log[i]) /\ Last(log[i].argv) = name
                  /\ \E i \in 1..Len(log) : IsSwitchRun(log[i]) /\ log[i].cwd = CheckoutOf(name)

C10_Witness ==
    /\ Returned(0)
    /\ Len(RecordedPlugins) = MaxPlugins
    /\ fs0.checkouts = {}
    /\ RecordedPlugins[1].data["version"] = V_1_5
    /\ RecordedPlugins[2].data["version"] = V_2_0_0
    /\ \E i \in 1..Len(log) :
          /\ IsCloneRun(log[i]) /\ log[i].argv[6] = <<"v", "2", ".", "0", ".", "0">>
          /\ IsSwitchRun(log[i + 1]) /\ log[i + 1].argv[4] = <<"v", "2", ".", "0", ".", "0">>

(* C11: a package whose recorded location is not PyPI is still a pinned     *)
(* line of requirements.txt and never by itself changes the exit code: the  *)
(* requirement list is made of the recorded names and versions alone, the   *)
(* assembly ends a run only over an absent field, and the exit code of a    *)
(* run on a complete record is the one the tools' answers give.             *)

RecordedPackages ==
    IF IsObject /\ Has(Content, "software_info") /\ Has(Content["software_info"], "packages")
    THEN Content["software_info"]["packages"] ELSE <<>>

PinnedLine(name, version) == name \o <<" == ">> \o version

\* the lines the record asks for: the application, then every package
RecordedLines ==
    << PinnedLine(<<"mapclient">>, Content["software_info"]["mapclient"]["version"]) >>
    \o [i \in 1..Len(RecordedPackages) |->
           PinnedLine(RecordedPackages[i].name, RecordedPackages[i].data["version"])]

\* every field lines 198-202 read is in the record, whatever the locations say
AssemblyFieldsRecorded ==
    /\ IsObject /\ Has(Content, "software_info")
    /\ Has(Content["software_info"], "mapclient")
    /\ Has(Content["software_info"]["mapclient"], "version")
    /\ Has(Content["software_info"], "packages")
    /\ \A i \in 1..Len(RecordedPackages) :
          Has(RecordedPackages[i].data, "version") /\ Has(RecordedPackages[i].data, "location")
    /\ Has(Content["software_info"], "plugins")

AfterAssembly ==
    {"CreateVirtualEnv", "WriteRequirements", "InstallRequirements", "EnsurePluginDir",
     "CloneOrReuse", "BranchSwitch", "TemporaryInstall", "Activate"}

AfterWriting == AfterAssembly \ {"CreateVirtualEnv", "WriteRequirements"}

\* the run got past lines 198-202
Assembled == pc \in AfterAssembly \/ (Done /\ log # <<>>)

\* the run ended inside lines 198-202
EndedInAssembly == Done /\ log = <<>> /\ git_exe # None

\* the exit code the answers of the tools give
CodeOfAnswers ==
    IF git_exe = None THEN GIT_EXECUTABLE_NOT_FOUND
    ELSE IF Last(log).rc = 0 \/ BranchExistsReported(Last(log)) THEN SUCCESS
    ELSE IF IsVenvRun(Last(log)) THEN VIRTUALENV_SETUP_FAILED
    ELSE IF IsPipRequirementsRun(Last(log)) THEN REQUIREMENTS_INSTALL_FAILED
    ELSE IF IsCloneRun(Last(log)) \/ IsEchoRun(Last(log)) THEN PLUGIN_CLONE_FAILED
    ELSE IF IsSwitchRun(Last(log)) THEN GIT_SWITCH_FAILED
    ELSE MAPCLIENT_USE_FAILED

\* the lines a record asks for
LinesOf(content) ==
    LET info == content["software_info"] IN
    << PinnedLine(<<"mapclient">>, info["mapclient"]["version"]) >>
    \o [i \in 1..Len(info["packages"]) |->
           PinnedLine(info["packages"][i].name, info["packages"][i].data["version"])]

\* two records that differ in the locations of their packages at most
DifferInPackageLocationsOnly(c1, c2) ==
    /\ Has(c2, "software_info") /\ Has(c2["software_info"], "packages")
    /\ LET p1 == c1["software_info"]["packages"]
           p2 == c2["software_info"]["packages"]
       IN  /\ Len(p1) = Len(p2)
           /\ \A i \in 1..Len(p1) :
                 /\ p1[i].name = p2[i].name
                 /\ Has(p2[i].data, "version") /\ Has(p2[i].data, "location")
                 /\ p1[i].data["version"] = p2[i].data["version"]
           /\ c2 = [c1 EXCEPT !["software_info"] = [@ EXCEPT !["packages"] = p2]]

C11_LocationIsAdvisory ==
    /\ (Assembled /\ AssemblyFieldsRecorded) =>
          /\ requirements = RecordedLines
          /\ Len(requirements) = 1 + Len(RecordedPackages)
          /\ \A other \in Contents :
                DifferInPackageLocationsOnly(Content, other) => requirements = LinesOf(other)
    /\ EndedInAssembly => ~AssemblyFieldsRecorded
    /\ (Done /\ fs0.isdir /\ ValidRecord /\ InterpreterMatches) =>
          /\ raised = "none" /\ exitCode = CodeOfAnswers
          /\ (log # <<>> /\ Last(log).rc = 0) =>
                fs.requirements.text = JoinLines(RecordedLines)

C11_Witness ==
    /\ Returned(SUCCESS)
    /\ RecordedPackages # <<>>
    /\ RecordedPackages[1].data["location"] # PyPI
    /\ \E other \in Contents :
          /\ other # Content
          /\ DifferInPackageLocationsOnly(Content, other)
          /\ other["software_info"]["packages"][1].data["location"] = PyPI
    /\ fs.requirements.text =
          <<"mapclient", " == ", "0", ".", "9", "\n", "package", "1", " == ", "1", ".", "2", ".", "3">>

(* C12: the requirements.txt a run writes holds exactly 1 + (number of      *)
(* recorded packages) newline-separated lines `name == version`: the pin    *)
(* `mapclient == <version>` first, then one line per recorded package in    *)
(* mapping order, in place of whatever the file held before the run.        *)

RECURSIVE SplitLines(_, _, _)
\* the lines of a text, read back: cut at every newline
SplitLines(text, cur, done) ==
    IF text = <<>> THEN Append(done, cur)
    ELSE IF Head(text) = "\n" THEN SplitLines(Tail(text), <<>>, Append(done, cur))
    ELSE SplitLines(Tail(text), Append(cur, Head(text)), done)

\* this run has written requirements.txt
Written ==
    \/ pc \in AfterWriting
    \/ Done /\ \E i \in 1..Len(log) : IsPipRequirementsRun(log[i])

Propagated(i) == i = Len(log) /\ Done /\ raised = "none" /\ exitCode \in 1..10

C13_EveryFailurePropagates ==
    ValidRecord =>
        \A i \in 1..Len(log) :
            (log[i].rc # 0 /\ ~BranchExistsReported(log[i])) => Propagated(i)

\* the same, the call of line 236 set aside
C13_AllButTemporaryInstallPropagate ==
    ValidRecord =>
        \A i \in 1..Len(log) :
            (log[i].rc # 0 /\ ~BranchExistsReported(log[i]) /\ ~IsTemporaryInstallRun(log[i]))
            => Propagated(i)

(* C14: the pipeline only moves forward: environment creation, the writing  *)
(* of requirements.txt, requirement installation, plugin synchronisation    *)
(* and activation happen in that order, each starts only after the one      *)
(* before it succeeded, none is retried, and after a step fails no further  *)
(* external tool is invoked and nothing more is written.                    *)

\* the place of a subprocess in the pipeline (the writing of requirements.txt
\* is place 2; the editable install of line 236 sits before the activation)
Rank(r) ==
    IF IsVenvRun(r) THEN 1
    ELSE IF IsPipRequirementsRun(r) THEN 3
    ELSE IF IsCloneRun(r) \/ IsSwitchRun(r) \/ IsEchoRun(r) THEN 4
    ELSE IF IsTemporaryInstallRun(r) THEN 5
    ELSE 6

\* what the pipeline takes for a success
Succeeded(r) == r.rc = 0 \/ BranchExistsReported(r)

WroteRequirements == fs.requirements # fs0.requirements
TouchedPlugins == fs.plugins_dir # fs0.plugins_dir \/ fs.checkouts # fs0.checkouts

\* the order of the steps, whatever their results
StepsInOrder ==
    /\ \A i, j \in 1..Len(log) :
          i < j => /\ Rank(log[i]) <= Rank(log[j])
                   /\ Rank(log[i]) = Rank(log[j]) => Rank(log[i]) = 4
                   /\ <<log[i].argv, log[i].cwd>> # <<log[j].argv, log[j].cwd>>
    /\ Done => ~ENABLED Next
    /\ WroteRequirements =>
          /\ log # <<>> /\ IsVenvRun(log[1]) /\ log[1].rc = 0
          /\ pc # "WriteRequirements"
    /\ (\E i \in 1..Len(log) : Rank(log[i]) >= 3) => fs.requirements.exists /\ Written
    /\ (TouchedPlugins \/ \E i \in 1..Len(log) : Rank(log[i]) >= 4) =>
          /\ Len(log) >= 2 /\ IsPipRequirementsRun(log[2]) /\ log[2].rc = 0
          /\ fs.plugins_dir
    /\ (\E i \in 1..Len(log) : Rank(log[i]) = 6) =>
          /\ \A k \in 1..Len(RecordedPlugins) :
                /\ RecordedPlugins[k].name \in fs.checkouts
                /\ \E i \in 1..Len(log) :
                      /\ IsSwitchRun(log[i]) /\ log[i].cwd = CheckoutOf(RecordedPlugins[k].name)
                      /\ Succeeded(log[i])

C14_PipelineMovesForward ==
    /\ StepsInOrder
    /\ \A i \in 1..(Len(log) - 1) : Succeeded(log[i])
    /\ (log # <<>> /\ ~Succeeded(Last(log))) => (Done /\ exitCode # SUCCESS)

\* the same of the five steps the pipeline is made of, the call of line 236
\* set aside
C14_NamedStepsMoveForward ==
    /\ StepsInOrder
    /\ \A i \in 1..(Len(log) - 1) : Succeeded(log[i]) \/ IsTemporaryInstallRun(log[i])
    /\ (log # <<>> /\ ~Succeeded(Last(log)) /\ ~IsTemporaryInstallRun(Last(log)))
          => (Done /\ exitCode # SUCCESS)

(* C15: plugins are processed one at a time in mapping order, clone or      *)
(* reuse and then the branch switch for each: when the clone/reuse or the   *)
(* switch of the k-th plugin fails, no git command is invoked for plugins   *)
(* k+1..n, the checkouts of plugins 1..k-1 stay in place and the            *)
(* activation is not invoked.                                               *)

IsPluginRun(r) == IsCloneRun(r) \/ IsEchoRun(r) \/ IsSwitchRun(r)

\* the plugin a git or echo call is made for
PluginNameOf(r) ==
    IF IsCloneRun(r) THEN Last(r.argv)
    ELSE IF IsEchoRun(r) THEN SubSeq(r.argv[2], Len(PluginDir) + 2, Len(r.argv[2]))
    ELSE SubSeq(r.cwd, Len(PluginDir) + 2, Len(r.cwd))

PluginIndexOf(r) ==
    CHOOSE k \in 1..Len(RecordedPlugins) : RecordedPlugins[k].name = PluginNameOf(r)

C15_PluginsInOrderFailureStops ==
    /\ fs0.checkouts \subseteq fs.checkouts
    /\ \A i \in 1..Len(log) :
          IsPluginRun(log[i]) =>
              /\ \E k \in 1..Len(RecordedPlugins) : RecordedPlugins[k].name = PluginNameOf(log[i])
              /\ IsSwitchRun(log[i]) =>
                    /\ i > 1 /\ (IsCloneRun(log[i - 1]) \/ IsEchoRun(log[i - 1]))
                    /\ PluginNameOf(log[i - 1]) = PluginNameOf(log[i])
              /\ ~IsSwitchRun(log[i]) =>
                    IF PluginIndexOf(log[i]) = 1 THEN ~IsPluginRun(log[i - 1])
                    ELSE /\ IsSwitchRun(log[i - 1])
                         /\ PluginIndexOf(log[i - 1]) = PluginIndexOf(log[i]) - 1
    /\ \A i \in 1..Len(log) :
          (IsPluginRun(log[i]) /\ ~Succeeded(log[i])) =>
              LET k == PluginIndexOf(log[i]) IN
              /\ i = Len(log) /\ Done /\ exitCode # SUCCESS
              /\ \A j \in 1..Len(log), m \in (k + 1)..Len(RecordedPlugins) :
                    IsPluginRun(log[j]) => PluginIndexOf(log[j]) # m
              /\ \A m \in 1..(k - 1) : RecordedPlugins[m].name \in fs.checkouts
              /\ \A j \in 1..Len(log) : ~IsActivationRun(log[j]) /\ ~IsTemporaryInstallRun(log[j])

C15_Witness ==
    /\ Returned(PLUGIN_CLONE_FAILED)
    /\ Len(RecordedPlugins) = MaxPlugins
    /\ fs0.checkouts = {}
    /\ fs.checkouts = {RecordedPlugins[1].name}
    /\ IsCloneRun(Last(log)) /\ PluginIndexOf(Last(log)) = 2

(* C16: for each plugin the branch switch yields GIT_SWITCH_FAILED (9)      *)
(* exactly when the switch command exits non-zero for a reason other than   *)
(* that the branch exists; a non-zero exit because branch v<version> exists *)
(* is a success, and a failure of the clone/reuse before it yields code 8,  *)
(* never 9.  Stated of the plugins that record a version and a location.    *)

BranchExistsMessage(version) ==
    <<"fatal: a branch named '", "v">> \o version \o <<"' already exists\n">>

C16_SwitchCodeIsNine ==
    /\ \A i \in 1..Len(log) :
          IsPluginRun(log[i]) =>
              LET k == PluginIndexOf(log[i])
                  data == RecordedPlugins[k].data
              IN  (Has(data, "version") /\ Has(data, "location")) =>
                  /\ (IsSwitchRun(log[i]) /\ log[i].rc # 0
                         /\ log[i].stderr # BranchExistsMessage(data["version"]))
                       => (i = Len(log) /\ Returned(GIT_SWITCH_FAILED))
                  /\ (IsSwitchRun(log[i])
                         /\ (log[i].rc = 0 \/ log[i].stderr = BranchExistsMessage(data["version"])))
                       => WentOnFrom(k, i)
                  /\ (~IsSwitchRun(log[i]) /\ log[i].rc # 0)
                       => (i = Len(log) /\ Returned(PLUGIN_CLONE_FAILED))
                  /\ (~IsSwitchRun(log[i]) /\ log[i].rc = 0)
                       => IF i = Len(log) THEN pc = "BranchSwitch" ELSE IsSwitchRun(log[i + 1])
    /\ Returned(GIT_SWITCH_FAILED) =>
          /\ log # <<>> /\ IsSwitchRun(Last(log)) /\ Last(log).rc # 0
          /\ ~BranchExistsReported(Last(log))

C16_Witness ==
    /\ Returned(GIT_SWITCH_FAILED)
    /\ Len(RecordedPlugins) = MaxPlugins
    /\ Last(log).stderr = <<"fatal: not a git repository\n">>
    /\ PluginIndexOf(Last(log)) = 2
    /\ \E i \in 1..Len(log) :
          IsSwitchRun(log[i]) /\ log[i].rc # 0 /\ BranchExistsReported(log[i])

(* C17: the activation is the final step: the activation tool is invoked at *)
(* most once per run, only after every plugin has passed clone/reuse and    *)
(* branch switch, and the run returns 0 if and only if the activation tool  *)
(* was invoked and exited zero; a non-zero activation exit returns 10.      *)

ActivationRuns == { i \in 1..Len(log) : IsActivationRun(log[i]) }

\* the k-th recorded plugin went through both of its steps
PluginPassed(k) ==
    \E i \in 1..(Len(log) - 1) :
        /\ IsCloneRun(log[i]) \/ IsEchoRun(log[i])
        /\ PluginIndexOf(log[i]) = k /\ log[i].rc = 0
        /\ IsSwitchRun(log[i + 1]) /\ PluginIndexOf(log[i + 1]) = k
        /\ log[i + 1].rc = 0 \/ BranchExistsReported(log[i + 1])

C17_ActivationIsFinal ==
    /\ Cardinality(ActivationRuns) <= 1
    /\ \A i \in ActivationRuns :
          /\ i = Len(log) /\ Done
          /\ log[i].argv = << <<"setup_dir", "/", "venv_map_client", "/", "bin", "/",
                                "mapclient_use", "3.11">>,
                              SetupDir, <<"-d">>, <<"setup_dir", "/", "plugins">> >>
          /\ \A k \in 1..Len(RecordedPlugins) :
                PluginPassed(k) /\ RecordedPlugins[k].name \in fs.checkouts
          /\ IF log[i].rc = 0 THEN Returned(SUCCESS) ELSE Returned(MAPCLIENT_USE_FAILED)
    /\ (Done /\ exitCode = SUCCESS) => (ActivationRuns # {} /\ Last(log).rc = 0)
    /\ Returned(MAPCLIENT_USE_FAILED) => (ActivationRuns # {} /\ Last(log).rc # 0)
    /\ pc = "Activate" => \A k \in 1..Len(RecordedPlugins) : PluginPassed(k)

C17_Witness ==
    /\ Returned(MAPCLIENT_USE_FAILED)
    /\ Len(RecordedPlugins) = MaxPlugins
    /\ \A i \in 1..(Len(log) - 1) : log[i].rc = 0
    /\ Cardinality(ActivationRuns) = 1

(* C18: for a bare command name on a host without executable suffixes,      *)
(* _which returns the candidate of the earliest directory of the search     *)
(* path (in order, each normalized directory tried once) whose entry        *)
(* exists, is not a directory and is executable, and None exactly when no   *)
(* directory has such an entry; a directory-qualified command is checked    *)
(* directly and its result does not depend on the search path.              *)

\* the search path of a call: PATH, or the default when PATH is not set
EffectivePath(env) == IF env.path_set THEN env.path ELSE DefPath

\* an entry that exists, is not a directory and is executable
Qualifies(kind) == kind = "file_x"

QualifyingPlaces(cmd, env) ==
    { i \in 1..Len(EffectivePath(env)) : Qualifies(env.entry[EffectivePath(env)[i]]) }

Earliest(places) == CHOOSE i \in places : \A j \in places : i <= j

C18_WhichReturnsEarliestQualifying ==
    LET cmd == which_call.cmd
        env == which_call.env
        tried == which_call.tried
    IN  /\ \A i, j \in 1..Len(tried) : i # j => tried[i] # tried[j]
        /\ which_call.at = "done" =>
              IF Dirname(cmd) = <<>>
              THEN LET places == QualifyingPlaces(cmd, env) IN
                   /\ which_call.result = None <=> places = {}
                   /\ places # {} =>
                         /\ which_call.result
                              = EffectivePath(env)[Earliest(places)] \o <<"/">> \o cmd
                         /\ Last(tried) = which_call.result
                   /\ \A i \in 1..Len(EffectivePath(env)) :
                         (places = {} \/ i <= Earliest(places)) =>
                             \E j \in 1..Len(tried) :
                                 tried[j] = EffectivePath(env)[i] \o <<"/">> \o cmd
                   /\ which_call.result = Which(cmd, env)
              ELSE /\ tried = <<cmd>>
                   /\ which_call.result = IF Qualifies(env.entry[Dirname(cmd)]) THEN cmd ELSE None

C18_Witness ==
    /\ which_call.at = "done"
    /\ which_call.cmd = <<"git">>
    /\ which_call.env.path_set
    /\ which_call.env.path = << <<"/usr/bin">>, <<"/usr/bin">>, <<"/opt/bin">> >>
    /\ which_call.env.entry[<<"/usr/bin">>] = "dir"
    /\ which_call.result = <<"/opt/bin", "/", "git">>
    /\ Len(which_call.tried) = 2

\* the directory-qualified case: found beside a search path that has another
C18_QualifiedWitness ==
    /\ which_call.at = "done"
    /\ which_call.cmd = <<"/opt/bin", "/", "git">>
    /\ which_call.env.path_set /\ which_call.env.path = << <<"/usr/bin">> >>
    /\ which_call.env.entry[<<"/usr/bin">>] = "file_x"
    /\ which_call.env.entry[<<"/opt/bin">>] = "file"
    /\ which_call.result = None

(* C19: the exit code bounds how far the setup directory has been           *)
(* populated: requirements.txt is written by the run if and only if the     *)
(* environment creation succeeded, so a run ending with code 1..6 has not   *)
(* written it, a run ending with code 7, 8, 9, 10 or 0 has written it with  *)
(* this run's requirement list, and the plugins directory is created only   *)
(* in runs ending with code 8, 9, 10 or 0.                                  *)

EnvironmentCreated == \E i \in 1..Len(log) : IsVenvRun(log[i]) /\ log[i].rc = 0

CreatedPluginsDir == fs.plugins_dir /\ ~fs0.plugins_dir

PopulationWithin(code) ==
    /\ WroteRequirements <=> EnvironmentCreated
    /\ code \in 1..6 => fs.requirements = fs0.requirements
    /\ code \in {7, 8, 9, 10, 0} =>
          fs.requirements = [exists |-> TRUE, text |-> JoinLines(requirements)]
    /\ CreatedPluginsDir => code \in {8, 9, 10, 0}

C19_ExitCodeBoundsPopulation == Done => PopulationWithin(exitCode)

\* the same, of the runs in which main() returns
C19_ReturnedCodeBoundsPopulation == (Done /\ raised = "none") => PopulationWithin(exitCode)

(* C20: provided every external tool invocation returns, every run reaches  *)
(* a terminal state (an exit code) after a bounded number of steps: each    *)
(* plugin of the record is visited at most once, with at most one clone and *)
(* at most one switch invocation per plugin, and no stage is ever           *)
(* re-entered.                                                              *)

\* how far main() has got: every statement after the ones before it, the body
\* of the loop once for each plugin
Progress ==
    CASE pc = "SetupDirCheck" -> 1
      [] pc = "ProvenanceFileCheck" -> 2
      [] pc = "ParseRecord" -> 3
      [] pc = "PlatformMatch" -> 4
      [] pc = "LocateGit" -> 5
      [] pc = "AssembleRequirements" -> 6
      [] pc = "CreateVirtualEnv" -> 7
      [] pc = "WriteRequirements" -> 8
      [] pc = "InstallRequirements" -> 9
      [] pc = "EnsurePluginDir" -> 10
      [] pc = "CloneOrReuse" -> 9 + 2 * idx
      [] pc = "BranchSwitch" -> 10 + 2 * idx
      [] pc = "TemporaryInstall" -> 11 + 2 * MaxPlugins
      [] pc = "Activate" -> 12 + 2 * MaxPlugins
      [] pc = "done" -> 13 + 2 * MaxPlugins

CallsFor(k, Is(_)) ==
    Cardinality({ i \in 1..Len(log) : Is(log[i]) /\ PluginIndexOf(log[i]) = k })

AtMostOnceEach ==
    /\ \A k \in 1..Len(RecordedPlugins) :
          /\ CallsFor(k, IsCloneRun) + CallsFor(k, IsEchoRun) <= 1
          /\ CallsFor(k, IsSwitchRun) <= 1
    /\ Len(log) <= 4 + 2 * Len(RecordedPlugins)
    /\ Progress \in 1..(13 + 2 * MaxPlugins)
    /\ pc \in {"CloneOrReuse", "BranchSwitch"} => idx \in 1..Len(RecordedPlugins)

C20_RunTerminates ==
    /\ <>Done
    /\ []AtMostOnceEach
    /\ [][Progress' > Progress]_vars

C20_Witness ==
    /\ Returned(SUCCESS)
    /\ Len(RecordedPlugins) = MaxPlugins
    /\ Len(log) = 4 + 2 * MaxPlugins
    /\ fs0.checkouts # {} /\ fs0.checkouts # fs.checkouts

====
